---- MODULE Spec2Model ----
(***************************************************************************)
(* isubank (isucon8-final): the bank service of src/bench/src/bench/init.go *)
(* with its three tables (user, credit, reserve) and its six handlers.      *)
(*                                                                          *)
(* Every request that opens a transaction (txScorp) occupies one slot of    *)
(* tx; one action is one SQL statement of the handler's closure, so that    *)
(* the statements of concurrent requests interleave.  A statement that      *)
(* takes row locks is one action with the statements that follow it under   *)
(* those locks, up to the next statement that touches a row the             *)
(* transaction has not locked (no other transaction can observe or disturb  *)
(* the steps in between).  Statements read the                              *)
(* committed tables plus the transaction's own writes (read committed, as   *)
(* section 4.1 of the specification states); writes are buffered in the     *)
(* slot and applied by TxCommit; row locks are held until the transaction   *)
(* ends.  The clock counts whole seconds: MySQL DATETIME, NOW() and         *)
(* Format(MySQLDatetime) all drop the sub-second part, and                  *)
(* floor(now + 60s) = floor(now) + 60.                                      *)
(***************************************************************************)
EXTENDS Integers, Sequences, FiniteSets

\* ---- bounds of the model ------------------------------------------------
MaxTx == 2
MaxUsers == 2
MaxAddCredits == 1
MaxReserves == 2
MaxTerminals == 2
MaxTicks == 2
MaxIdsLen == 2
MaxChecks == 1
MaxRejected == 1

\* ---- program constants --------------------------------------------------
Lifetime == 60
StatusOK == 200
StatusBadRequest == 400
StatusNotFound == 404
StatusInternalServerError == 500

CreditIsInsufficient == "credit is insufficient"
ReserveIsExpires == "reserve is already expired"
ReserveIsAlreadyCommited == "reserve is already commited"
InternalServerError == "internal server error"

\* ---- inputs -------------------------------------------------------------
BankIDs == {"a", "b"}
NewUsers == <<"a", "b">>
AppIDs == {"x"}
CreditPrices == {2}
ReservePrices == {-2, 1}
CheckPrices == {2}
TickSteps == {1, Lifetime}

\* the requests of a run, by kind: transactions begun, customers registered,
\* reserve requests with price 0, clock advances
Workloads ==
    {[register |-> MaxUsers, add_credit |-> MaxAddCredits, reserve |-> MaxReserves,
      terminal |-> MaxTerminals - 1, check |-> 0, rejected |-> 0, tick |-> MaxTicks],
     [register |-> MaxUsers, add_credit |-> 0, reserve |-> MaxReserves,
      terminal |-> MaxTerminals, check |-> 0, rejected |-> 0, tick |-> 0],
     [register |-> MaxUsers - 1, add_credit |-> MaxAddCredits, reserve |-> MaxReserves - 1,
      terminal |-> MaxTerminals, check |-> MaxChecks, rejected |-> MaxRejected,
      tick |-> MaxTicks]}

Slots == 1..MaxTx
ReserveIDs == 1..MaxReserves

VARIABLES
    clock,      \* wall clock, in seconds (time.Now() and MySQL NOW())
    user,       \* table user: sequence of [bank_id, credit], index = id
    credit,     \* table credit: sequence of [user_id, amount, note]
    reserve,    \* table reserve: set of rows
    nextRid,    \* AUTO_INCREMENT of reserve.id
    tx,         \* the in-flight transactions, one per slot
    last,       \* the response written by the step that led here, if any
    terminal,   \* per reservation id: successful commits and cancels
    budget      \* the requests still to come, by kind

vars == <<clock, user, credit, reserve, nextRid, tx, last, terminal, budget>>

\* ---- helpers ------------------------------------------------------------
Range(s) == {s[i] : i \in DOMAIN s}

RECURSIVE SumSeq(_, _)
\* SELECT IFNULL(SUM(amount), 0) FROM credit WHERE user_id = u
SumSeq(cr, u) ==
    IF cr = <<>> THEN 0
    ELSE (IF cr[Len(cr)].user_id = u THEN cr[Len(cr)].amount ELSE 0)
         + SumSeq(SubSeq(cr, 1, Len(cr) - 1), u)

RECURSIVE SumRows(_)
\* SUM(amount) over a set of reserve rows
SumRows(S) ==
    IF S = {} THEN 0
    ELSE LET r == CHOOSE x \in S : TRUE IN r.amount + SumRows(S \ {r})

RECURSIVE SortedRows(_)
\* the rows of S in primary-key order
SortedRows(S) ==
    IF S = {} THEN <<>>
    ELSE LET r == CHOOSE x \in S : \A y \in S : x.id <= y.id
         IN <<r>> \o SortedRows(S \ {r})

\* memo := fmt.Sprintf("app:%s, price:%d", req.AppID, req.Price)
ReserveMemo(app, price) == [text |-> "app:%s, price:%d", app |-> app, price |-> price]

AddCreditMemo == [text |-> "by add credit API", app |-> "", price |-> 0]

UserIDs == DOMAIN user

\* the bank_id the next new customer registers with ("" when all have)
NewBankID == IF Len(user) < Len(NewUsers) THEN NewUsers[Len(user) + 1] ELSE ""

\* SELECT id FROM user WHERE bank_id = ? LIMIT 1; 0 when there is no row
UserIDOf(b) ==
    IF \E u \in UserIDs : user[u].bank_id = b
    THEN CHOOSE u \in UserIDs : user[u].bank_id = b
    ELSE 0

NoTx == [op |-> "none", pc |-> "idle", user_id |-> 0, price |-> 0, app |-> "",
         ids |-> <<>>, reserves |-> <<>>, todo |-> <<>>, sum |-> 0,
         locks |-> {}, wcredit |-> <<>>, wuser |-> <<>>, wins |-> {}, wdel |-> {},
         conc |-> {}, done |-> {}]

\* a response, with what the request was: its arguments, the other reserve calls
\* it overlapped with, the ids of its list that were committed before it
\* arrived, the statement its transaction ended at, the ledger entries its
\* transaction had appended
NoReply == [op |-> "none", status |-> 0, error |-> "", rid |-> 0,
            user_id |-> 0, price |-> 0, ids |-> <<>>, conc |-> {}, done |-> {},
            pc |-> "idle", appended |-> 0]

\* Error(w, err, code) and Success(w) of a handler that returns before txScorp
Reply(op, status, error, rid) ==
    [NoReply EXCEPT !.op = op, !.status = status, !.error = error, !.rid = rid]

\* Error(w, err, code) and Success(w) after txScorp has returned
ReplyOf(t, status, error, rid) ==
    [op |-> tx[t].op, status |-> status, error |-> error, rid |-> rid,
     user_id |-> tx[t].user_id, price |-> tx[t].price, ids |-> tx[t].ids,
     conc |-> tx[t].conc, done |-> tx[t].done, pc |-> tx[t].pc,
     appended |-> Len(tx[t].wcredit)]

Running(t) == tx[t].pc # "idle"

\* the slot a new request takes: the slots are anonymous connections
FreeSlot(t) == /\ ~Running(t)
               /\ \A o \in Slots : o < t => Running(o)

LockedByOther(t, l) == \E o \in Slots : o # t /\ l \in tx[o].locks

UserLock(u) == <<"user", u>>
ReserveLock(k) == <<"reserve", k>>

\* ---- initial state ------------------------------------------------------
Init ==
    /\ clock = 0
    /\ user = <<>>
    /\ credit = <<>>
    /\ reserve = {}
    /\ nextRid = 1
    /\ tx = [t \in Slots |-> NoTx]
    /\ last = NoReply
    /\ terminal = [k \in ReserveIDs |-> [commit |-> 0, cancel |-> 0]]
    /\ budget \in Workloads

\* ---- the clock ----------------------------------------------------------
Tick ==
    /\ budget.tick > 0
    /\ budget' = [budget EXCEPT !.tick = @ - 1]
    /\ \E d \in TickSteps : clock' = clock + d
    /\ last' = NoReply
    /\ UNCHANGED <<user, credit, reserve, nextRid, tx, terminal>>

\* ---- POST /register -----------------------------------------------------
Register(b) ==
    /\ IF b = ""
       THEN /\ last' = Reply("register", StatusBadRequest, "bank_id is required", 0)
            /\ user' = user
       ELSE IF UserIDOf(b) # 0
       THEN /\ last' = Reply("register", StatusBadRequest, "bank_id already exists", 0)
            /\ user' = user
       ELSE /\ budget.register > 0
            /\ user' = Append(user, [bank_id |-> b, credit |-> 0])
            /\ last' = Reply("register", StatusOK, "", 0)
    /\ budget' = [budget EXCEPT !.register = IF user' # user THEN @ - 1 ELSE @]
    /\ UNCHANGED <<clock, credit, reserve, nextRid, tx, terminal>>

\* ---- txScorp: the end of a transaction ----------------------------------
\* the concurrent negative reserve calls of the same user learn the outcome of t
NoteOutcome(t, status, error) ==
    [o \in Slots |->
        IF /\ o # t
           /\ tx[t].op = "reserve" /\ tx[t].price < 0
           /\ tx[o].op = "reserve" /\ tx[o].price < 0
           /\ tx[o].user_id = tx[t].user_id
        THEN [tx[o] EXCEPT !.conc = @ \cup {[price |-> tx[t].price, status |-> status,
                                             error |-> error,
                                             balance |-> SumSeq(credit, tx[t].user_id)]}]
        ELSE IF o = t THEN NoTx ELSE tx[o]]

RollbackKeepsLedger(t, status, error) ==
    /\ tx' = NoteOutcome(t, status, error)
    /\ last' = ReplyOf(t, status, error, 0)
    /\ credit' = credit \o tx[t].wcredit
    /\ UNCHANGED <<clock, user, reserve, nextRid, terminal, budget>>

RollbackKeepsLocks(t, status, error) ==
    /\ tx' = [NoteOutcome(t, status, error) EXCEPT ![t].locks = tx[t].locks]
    /\ last' = ReplyOf(t, status, error, 0)
    /\ UNCHANGED <<clock, user, credit, reserve, nextRid, terminal, budget>>

\* tx.Rollback(): the buffered writes are dropped, the locks released
Rollback(t, status, error) ==
    /\ tx' = NoteOutcome(t, status, error)
    /\ last' = ReplyOf(t, status, error, 0)
    /\ UNCHANGED <<clock, user, credit, reserve, nextRid, terminal, budget>>

\* user.credit after the buffered UPDATEs of t (the last one of a user wins)
RECURSIVE ApplyUserWrites(_, _)
ApplyUserWrites(us, w) ==
    IF w = <<>> THEN us
    ELSE ApplyUserWrites([us EXCEPT ![Head(w).user_id].credit = Head(w).credit], Tail(w))

\* err = tx.Commit(): the buffered writes become visible at once
TxCommit(t) ==
    /\ tx[t].pc = "commit"
    /\ credit' = credit \o tx[t].wcredit
    /\ user' = ApplyUserWrites(user, tx[t].wuser)
    /\ reserve' = {r \in reserve : r.id \notin tx[t].wdel} \cup tx[t].wins
    /\ terminal' = [k \in DOMAIN terminal |->
            IF k \in Range(tx[t].ids)
            THEN IF tx[t].op = "commit"
                 THEN [terminal[k] EXCEPT !.commit = @ + 1]
                 ELSE [terminal[k] EXCEPT !.cancel = @ + 1]
            ELSE terminal[k]]
    /\ tx' = NoteOutcome(t, StatusOK, "")
    /\ last' = ReplyOf(t, StatusOK, "",
                       IF tx[t].wins = {} THEN 0 ELSE (CHOOSE r \in tx[t].wins : TRUE).id)
    /\ UNCHANGED <<clock, nextRid, budget>>

\* a statement (or tx.Commit) fails, or the closure panics: rollback, 500
TxError(t) ==
    /\ Running(t)
    /\ Rollback(t, StatusInternalServerError, InternalServerError)

\* ---- modyfyCredit --------------------------------------------------------
\* INSERT INTO credit (...), then SELECT IFNULL(SUM(amount),0) FROM credit
\* WHERE user_id = ?: the sum is over the committed rows and the rows this
\* transaction inserted
ModyfyCreditSum(r, c) ==
    [r EXCEPT !.wcredit = Append(@, c),
              !.sum = SumSeq(credit \o Append(r.wcredit, c), c.user_id)]

\* UPDATE user SET credit = ? WHERE id = ?: takes the row lock of the user
ModyfyCreditStore(r, c) ==
    [r EXCEPT !.locks = @ \cup {UserLock(c.user_id)},
              !.wuser = Append(@, [user_id |-> c.user_id, credit |-> r.sum])]

\* ---- POST /add_credit ---------------------------------------------------
AddCredit(t, b, p) ==
    /\ FreeSlot(t)
    /\ budget.add_credit > 0
    /\ IF p <= 0
       THEN /\ last' = Reply("add_credit", StatusBadRequest, "price must be upper than 0", 0)
            /\ tx' = tx
       ELSE IF b = ""
       THEN /\ last' = Reply("add_credit", StatusBadRequest, "bank_id is required", 0)
            /\ tx' = tx
       ELSE IF UserIDOf(b) = 0
       THEN /\ last' = Reply("add_credit", StatusNotFound, "user not found", 0)
            /\ tx' = tx
       ELSE /\ tx' = [tx EXCEPT ![t] = [NoTx EXCEPT
                        !.op = "add_credit", !.pc = "add_credit_body",
                        !.user_id = UserIDOf(b), !.price = p]]
            /\ last' = NoReply
    /\ budget' = [budget EXCEPT !.add_credit = IF tx' # tx THEN @ - 1 ELSE @]
    /\ UNCHANGED <<clock, user, credit, reserve, nextRid, terminal>>

\* the closure of AddCredit: SELECT id FROM user WHERE id = ? LIMIT 1 FOR
\* UPDATE, then modyfyCredit.  No other transaction changes the committed
\* ledger of the user while the lock is held, so the statements are one step.
AddCreditBody(t) ==
    /\ tx[t].pc = "add_credit_body"
    /\ ~LockedByOther(t, UserLock(tx[t].user_id))
    /\ LET c == [user_id |-> tx[t].user_id, amount |-> tx[t].price, note |-> AddCreditMemo]
           locked == [tx[t] EXCEPT !.locks = @ \cup {UserLock(tx[t].user_id)}]
       IN tx' = [tx EXCEPT ![t] =
                    [ModyfyCreditStore(ModyfyCreditSum(locked, c), c) EXCEPT !.pc = "commit"]]
    /\ last' = NoReply
    /\ UNCHANGED <<clock, user, credit, reserve, nextRid, terminal, budget>>

\* ---- POST /check --------------------------------------------------------
Check(t, a, b, p) ==
    /\ FreeSlot(t)
    /\ budget.check > 0
    /\ IF p <= 0
       THEN /\ last' = Reply("check", StatusBadRequest, "price must be upper than 0", 0)
            /\ tx' = tx
       ELSE IF b = ""
       THEN /\ last' = Reply("check", StatusBadRequest, "bank_id is required", 0)
            /\ tx' = tx
       ELSE IF UserIDOf(b) = 0
       THEN /\ last' = Reply("check", StatusNotFound, "user not found", 0)
            /\ tx' = tx
       ELSE /\ tx' = [tx EXCEPT ![t] = [NoTx EXCEPT
                        !.op = "check", !.pc = "check_body",
                        !.user_id = UserIDOf(b), !.price = p, !.app = a]]
            /\ last' = NoReply
    /\ budget' = [budget EXCEPT !.check = IF tx' # tx THEN @ - 1 ELSE @]
    /\ UNCHANGED <<clock, user, credit, reserve, nextRid, terminal>>

CheckInsufficientWithPending(u, price) ==
    user[u].credit
      + SumRows({r \in reserve : r.user_id = u /\ r.is_minus /\ r.expire_at >= clock})
      < price

\* if credit < req.Price, with credit the user.credit the statement read
CheckInsufficient(u, price) == user[u].credit < price

\* the closure of Check: SELECT credit FROM user WHERE id = ? LIMIT 1 FOR
\* UPDATE, which waits for the row lock of the user, and the comparison
CheckBody(t) ==
    /\ tx[t].pc = "check_body"
    /\ ~LockedByOther(t, UserLock(tx[t].user_id))
    /\ IF CheckInsufficient(tx[t].user_id, tx[t].price)
       THEN Rollback(t, StatusOK, CreditIsInsufficient)
       ELSE /\ tx' = [tx EXCEPT ![t].pc = "commit",
                                ![t].locks = @ \cup {UserLock(tx[t].user_id)}]
            /\ last' = NoReply
            /\ UNCHANGED <<clock, user, credit, reserve, nextRid, terminal, budget>>

\* ---- POST /reserve ------------------------------------------------------
Reserve(t, a, b, p) ==
    /\ FreeSlot(t)
    /\ IF p = 0
       THEN /\ budget.rejected > 0
            /\ last' = [Reply("reserve", StatusBadRequest, "price is 0", 0)
                            EXCEPT !.price = p]
            /\ tx' = tx
       ELSE IF b = ""
       THEN /\ budget.reserve > 0
            /\ last' = [Reply("reserve", StatusBadRequest, "bank_id is required", 0)
                            EXCEPT !.price = p]
            /\ tx' = tx
       ELSE IF UserIDOf(b) = 0
       THEN /\ budget.reserve > 0
            /\ last' = [Reply("reserve", StatusNotFound, "user not found", 0)
                            EXCEPT !.price = p]
            /\ tx' = tx
       ELSE /\ budget.reserve > 0
            /\ tx' = [tx EXCEPT ![t] = [NoTx EXCEPT
                        !.op = "reserve", !.pc = "reserve_body",
                        !.user_id = UserIDOf(b), !.price = p, !.app = a]]
            /\ last' = NoReply
    /\ budget' = [budget EXCEPT !.reserve = IF tx' # tx THEN @ - 1 ELSE @,
                                !.rejected = IF p = 0 THEN @ - 1 ELSE @]
    /\ UNCHANGED <<clock, user, credit, reserve, nextRid, terminal>>

ExpireAtNow(now) == now

\* expire := now.Add(time.Minute)
ExpireAt(now) == now + Lifetime

ReservedSumAll(u, expire) ==
    SumRows({r \in reserve : r.user_id = u /\ r.is_minus})

\* SELECT IFNULL(SUM(amount), 0) FROM reserve
\*   WHERE user_id = ? AND is_minus = 1 AND expire_at >= ?
ReservedSum(u, expire) ==
    SumRows({r \in reserve : r.user_id = u /\ r.is_minus /\ r.expire_at >= expire})

InsufficientOfMagnitude(u, price, now) ==
    SumSeq(credit, u) + ReservedSum(u, ExpireAt(now))
        - (IF price < 0 THEN -price ELSE price) < 0

\* the solvency check of the closure of Reserve
Insufficient(u, price, now) ==
    LET expire == ExpireAt(now)
        fixed == SumSeq(credit, u)
        reserved == ReservedSum(u, expire)
    IN price < 0 /\ fixed + reserved + price < 0

\* the closure of Reserve: SELECT id FROM user WHERE id = ? LIMIT 1 FOR UPDATE,
\* time.Now(), the solvency check of a negative price, INSERT INTO reserve
ReserveBody(t) ==
    /\ tx[t].pc = "reserve_body"
    /\ ~LockedByOther(t, UserLock(tx[t].user_id))
    /\ LET u == tx[t].user_id
           price == tx[t].price
           now == clock
           expire == ExpireAt(now)
           isMinus == price < 0
       IN IF Insufficient(u, price, now)
          THEN /\ Rollback(t, StatusOK, CreditIsInsufficient)
          ELSE /\ tx' = [tx EXCEPT ![t].pc = "commit",
                            ![t].locks = @ \cup {UserLock(u)},
                            ![t].wins = {[id |-> nextRid, user_id |-> u, amount |-> price,
                                          note |-> ReserveMemo(tx[t].app, price),
                                          is_minus |-> isMinus,
                                          created_at |-> now, expire_at |-> expire]}]
               /\ nextRid' = nextRid + 1
               /\ last' = NoReply
               /\ UNCHANGED <<clock, user, credit, reserve, terminal, budget>>

\* ---- POST /commit and POST /cancel --------------------------------------
\* reserve_ids: lists of ids that reserve has handed out, smallest first (the
\* statements use the list in IN (...) only, where the order is immaterial)
IdLists == {ids \in UNION {[1..n -> ReserveIDs] : n \in 1..MaxIdsLen} :
                \A i \in DOMAIN ids : /\ ids[i] < nextRid
                                      /\ i > 1 => ids[i - 1] <= ids[i]}

Terminal(t, op, a, ids) ==
    /\ FreeSlot(t)
    /\ budget.terminal > 0
    /\ IF Len(ids) = 0
       THEN /\ last' = Reply(op, StatusBadRequest, "reserve_ids is required", 0)
            /\ tx' = tx
       ELSE /\ tx' = [tx EXCEPT ![t] = [NoTx EXCEPT
                        !.op = op, !.pc = "count", !.app = a, !.ids = ids,
                        !.done = {k \in Range(ids) : terminal[k].commit > 0}]]
            /\ last' = NoReply
    /\ budget' = [budget EXCEPT !.terminal = IF tx' # tx THEN @ - 1 ELSE @]
    /\ UNCHANGED <<clock, user, credit, reserve, nextRid, terminal>>

Commit(t, a, ids) == Terminal(t, "commit", a, ids)

Cancel(t, a, ids) == Terminal(t, "cancel", a, ids)

CountLiveNoPrecheck(ids) == Len(ids)

CountLivePerPosition(ids) ==
    Cardinality({i \in DOMAIN ids :
                    \E r \in reserve : r.id = ids[i] /\ r.expire_at >= clock})

\* SELECT COUNT(id) FROM reserve WHERE id IN (ids) AND expire_at >= NOW()
CountLive(ids) ==
    Cardinality({r \in reserve : r.id \in Range(ids) /\ r.expire_at >= clock})

CountExistingLive(ids) ==
    Cardinality({r \in reserve : r.id \in Range(ids) /\ r.expire_at >= clock})

\* SELECT COUNT(id) FROM reserve WHERE id IN (ids)
CountExisting(ids) ==
    Cardinality({r \in reserve : r.id \in Range(ids)})

\* the count precheck of Commit
CommitCount(t) ==
    /\ tx[t].pc = "count"
    /\ tx[t].op = "commit"
    /\ IF CountLive(tx[t].ids) < Len(tx[t].ids)
       THEN Rollback(t, StatusBadRequest, ReserveIsExpires)
       ELSE /\ tx' = [tx EXCEPT ![t].pc = "select"]
            /\ last' = NoReply
            /\ UNCHANGED <<clock, user, credit, reserve, nextRid, terminal, budget>>

\* the count precheck of Cancel
CancelCount(t) ==
    /\ tx[t].pc = "count"
    /\ tx[t].op = "cancel"
    /\ IF CountExisting(tx[t].ids) < Len(tx[t].ids)
       THEN Rollback(t, StatusBadRequest, ReserveIsAlreadyCommited)
       ELSE /\ tx' = [tx EXCEPT ![t].pc = "select"]
            /\ last' = NoReply
            /\ UNCHANGED <<clock, user, credit, reserve, nextRid, terminal, budget>>

RowsFreeNoLock(t, want) == TRUE

\* FOR UPDATE on the reserve rows: the statement waits while another
\* transaction holds one of them
RowsFree(t, want) == \A r \in want : ~LockedByOther(t, ReserveLock(r.id))

CancelDeleteFirst(ids) == {ids[1]}

\* Cancel: DELETE FROM reserve WHERE id IN (ids)
CancelDelete(ids) == Range(ids)

\* SELECT ... FROM reserve WHERE id IN (ids) FOR UPDATE, the check of the
\* number of rows, and SELECT id FROM user WHERE id IN (userids) LIMIT 1 FOR
\* UPDATE.  The first statement waits until no other transaction holds one of
\* the rows and returns the rows that exist then; the second returns and locks
\* one user row of the set (SQL leaves open which one).  Both only take locks,
\* so they are one step with the statement that follows them; in Cancel that
\* is DELETE FROM reserve WHERE id IN (ids), which neither waits nor shows
\* before the commit.
SelectForUpdate(t) ==
    /\ tx[t].pc = "select"
    /\ LET want == {r \in reserve : r.id \in Range(tx[t].ids)}
           rows == SortedRows(want)
       IN /\ RowsFree(t, want)
          /\ IF Len(rows) # Len(tx[t].ids)
             THEN Rollback(t, StatusBadRequest, ReserveIsAlreadyCommited)
             ELSE /\ \E u \in {r.user_id : r \in want} :
                       /\ ~LockedByOther(t, UserLock(u))
                       /\ tx' = [tx EXCEPT
                            ![t].locks = @ \cup {ReserveLock(r.id) : r \in want}
                                           \cup {UserLock(u)},
                            ![t].reserves = rows,
                            ![t].todo = IF tx[t].op = "commit" THEN rows ELSE <<>>,
                            ![t].wdel = IF tx[t].op = "commit" THEN {} ELSE CancelDelete(tx[t].ids),
                            ![t].pc = IF tx[t].op = "commit" THEN "modify" ELSE "commit"]
                  /\ last' = NoReply
                  /\ UNCHANGED <<clock, user, credit, reserve, nextRid, terminal, budget>>

AfterModifyNoDelete(r, ids) ==
    IF r.todo = <<>> THEN [r EXCEPT !.pc = "commit"] ELSE [r EXCEPT !.pc = "modify"]

\* DELETE FROM reserve WHERE id IN (ids), after the last modyfyCredit of Commit
AfterModify(r, ids) ==
    IF r.todo = <<>> THEN [r EXCEPT !.wdel = Range(ids), !.pc = "commit"]
    ELSE [r EXCEPT !.pc = "modify"]

\* the loop of Commit over reserves: modyfyCredit for a user whose row this
\* transaction has locked, as one step
ModyfyCreditLocked(t) ==
    /\ tx[t].pc = "modify"
    /\ LET rsv == Head(tx[t].todo)
           c == [user_id |-> rsv.user_id, amount |-> rsv.amount, note |-> rsv.note]
       IN /\ UserLock(c.user_id) \in tx[t].locks
          /\ tx' = [tx EXCEPT ![t] =
                AfterModify([ModyfyCreditStore(ModyfyCreditSum(tx[t], c), c) EXCEPT
                                !.todo = Tail(@)], tx[t].ids)]
    /\ last' = NoReply
    /\ UNCHANGED <<clock, user, credit, reserve, nextRid, terminal, budget>>

\* the loop of Commit over reserves: modyfyCredit for a user whose row this
\* transaction has not locked; first the INSERT and the SELECT SUM
ModyfyCreditInsert(t) ==
    /\ tx[t].pc = "modify"
    /\ LET rsv == Head(tx[t].todo)
           c == [user_id |-> rsv.user_id, amount |-> rsv.amount, note |-> rsv.note]
       IN /\ UserLock(c.user_id) \notin tx[t].locks
          /\ tx' = [tx EXCEPT ![t] = [ModyfyCreditSum(tx[t], c) EXCEPT !.pc = "update"]]
    /\ last' = NoReply
    /\ UNCHANGED <<clock, user, credit, reserve, nextRid, terminal, budget>>

\* then the UPDATE of user.credit, which waits for the row lock of the user
ModyfyCreditUpdate(t) ==
    /\ tx[t].pc = "update"
    /\ LET rsv == Head(tx[t].todo)
           c == [user_id |-> rsv.user_id, amount |-> rsv.amount, note |-> rsv.note]
       IN /\ ~LockedByOther(t, UserLock(c.user_id))
          /\ tx' = [tx EXCEPT ![t] =
                AfterModify([ModyfyCreditStore(tx[t], c) EXCEPT !.todo = Tail(@)],
                            tx[t].ids)]
    /\ last' = NoReply
    /\ UNCHANGED <<clock, user, credit, reserve, nextRid, terminal, budget>>

Next ==
    \/ Tick
    \/ \E b \in {NewBankID} \ {""} : Register(b)
    \/ \E t \in Slots, b \in BankIDs, p \in CreditPrices : AddCredit(t, b, p)
    \/ \E t \in Slots, a \in AppIDs, b \in BankIDs, p \in CheckPrices : Check(t, a, b, p)
    \/ \E t \in Slots, a \in AppIDs, b \in BankIDs, p \in ReservePrices \cup {0} :
          Reserve(t, a, b, p)
    \/ \E t \in Slots, a \in AppIDs, ids \in IdLists : Commit(t, a, ids)
    \/ \E t \in Slots, a \in AppIDs, ids \in IdLists : Cancel(t, a, ids)
    \/ \E t \in Slots : AddCreditBody(t)
    \/ \E t \in Slots : CheckBody(t)
    \/ \E t \in Slots : ReserveBody(t)
    \/ \E t \in Slots : CommitCount(t)
    \/ \E t \in Slots : CancelCount(t)
    \/ \E t \in Slots : SelectForUpdate(t)
    \/ \E t \in Slots : ModyfyCreditLocked(t)
    \/ \E t \in Slots : ModyfyCreditInsert(t)
    \/ \E t \in Slots : ModyfyCreditUpdate(t)
    \/ \E t \in Slots : TxCommit(t)
    \/ \E t \in Slots : TxError(t)

Spec == Init /\ [][Next]_vars

\* ---- batch commits over three customers -----------------------------------
\* The state after three registrations and five reserve calls of price 1 in
\* second 0: the owners of the reservations 1..5, and the lists committed.
BatchOwners == <<1, 3, 2, 2, 3>>
BatchLists == {<<1, 2, 3>>, <<4, 5>>}
BatchUsers == <<"a", "b", "c">>

InitBatch ==
    /\ clock = 0
    /\ user = [u \in DOMAIN BatchUsers |-> [bank_id |-> BatchUsers[u], credit |-> 0]]
    /\ credit = <<>>
    /\ reserve = {[id |-> k, user_id |-> BatchOwners[k], amount |-> 1,
                   note |-> ReserveMemo("x", 1), is_minus |-> FALSE,
                   created_at |-> 0, expire_at |-> Lifetime] : k \in DOMAIN BatchOwners}
    /\ nextRid = Len(BatchOwners) + 1
    /\ tx = [t \in Slots |-> NoTx]
    /\ last = NoReply
    /\ terminal = [k \in DOMAIN BatchOwners |-> [commit |-> 0, cancel |-> 0]]
    /\ budget = [register |-> 0, add_credit |-> 0, reserve |-> 0,
                 terminal |-> Cardinality(BatchLists) + 1, check |-> 0,
                 rejected |-> 0, tick |-> 0]

NextBatch ==
    \/ \E t \in Slots, a \in AppIDs, ids \in BatchLists : Commit(t, a, ids)
    \/ \E t \in Slots : CommitCount(t)
    \/ \E t \in Slots : SelectForUpdate(t)
    \/ \E t \in Slots : ModyfyCreditLocked(t)
    \/ \E t \in Slots : ModyfyCreditInsert(t)
    \/ \E t \in Slots : ModyfyCreditUpdate(t)
    \/ \E t \in Slots : TxCommit(t)
    \/ \E t \in Slots : TxError(t)

SpecBatch == InitBatch /\ [][NextBatch]_vars

\* ======================================================================
\* Properties
\* ======================================================================
\* the ledger balance of a user
LedgerBalance(u) == SumSeq(credit, u)

\* the pending withdrawal of a user: its negative reservations in the table
\* that have not expired
PendingWithdrawal(u) ==
    SumRows({r \in reserve : r.user_id = u /\ r.amount < 0 /\ r.expire_at >= clock})

\* the step in which the request of slot t gets its response
Finishing(t) == tx[t].pc # "idle" /\ tx'[t].pc = "idle"

\* the ledger entry a committed reservation leaves
EntryOf(r) == [user_id |-> r.user_id, amount |-> r.amount, note |-> r.note]

\* C1: in every reachable state the ledger balance of every user is >= 0.
BalanceNeverNegative == \A u \in UserIDs : LedgerBalance(u) >= 0

\* C2: in every state (all of them are states after committed transactions)
\* the cached credit of every user equals the sum of the user's ledger.
CreditCacheIsLedgerSum == \A u \in UserIDs : user[u].credit = LedgerBalance(u)

\* C3: the step in which Commit(ids) answers ok removes every reservation of
\* ids from the reserve table, all of which were there, and appends to the
\* ledger exactly one entry per id with the reservation's user_id, amount and
\* note, and nothing else.
CommitSuccessApplies ==
    [][\A t \in Slots :
        (tx[t].op = "commit" /\ Finishing(t) /\ last'.status = StatusOK) =>
            LET ids == Range(tx[t].ids)
                rows == {r \in reserve : r.id \in ids}
                new == SubSeq(credit', Len(credit) + 1, Len(credit'))
            IN /\ \A k \in ids : \E r \in rows : r.id = k
               /\ reserve' = reserve \ rows
               /\ Len(credit') >= Len(credit)
               /\ SubSeq(credit', 1, Len(credit)) = credit
               /\ Len(new) = Cardinality(ids)
               /\ \E f \in [DOMAIN new -> rows] :
                     /\ \A i, j \in DOMAIN new : f[i] = f[j] => i = j
                     /\ \A i \in DOMAIN new : new[i] = EntryOf(f[i])]_vars

\* a Commit of two reservations has answered ok
CommitOfTwoSucceeded ==
    /\ last.op = "commit" /\ last.status = StatusOK
    /\ Cardinality(Range(last.ids)) = 2 /\ last.appended = 2

\* C4: the step in which Commit(ids) answers with a failure leaves the reserve
\* table, the ledger and the users as they were, and so does every earlier
\* step of its transaction: no partial commit shows.
CommitFailureChangesNothing ==
    [][\A t \in Slots :
        /\ (tx[t].op = "commit" /\ Finishing(t) /\ last'.status # StatusOK)
              => UNCHANGED <<reserve, credit, user>>
        /\ (tx[t].op = "commit" /\ tx'[t].op = "commit" /\ tx'[t] # tx[t])
              => UNCHANGED <<reserve, credit, user>>]_vars

\* a Commit has failed with an internal error after its transaction had
\* appended a ledger entry
CommitFailedAfterAppend ==
    /\ last.op = "commit" /\ last.status = StatusInternalServerError
    /\ last.appended >= 1

\* C5: of two reserve calls of one user that overlap, both with a negative
\* amount the balance covers alone but not together, exactly one is admitted
\* and the other gets CreditInsufficient.
ExactlyOneConcurrentReserve ==
    (last.op = "reserve" /\ last.price < 0 /\ last.status = StatusOK) =>
        \A c \in last.conc :
            LET bal == LedgerBalance(last.user_id)
            IN (/\ c.status = StatusOK
                /\ c.balance = bal
                /\ bal + c.price >= 0
                /\ bal + last.price >= 0
                /\ bal + c.price + last.price < 0)
               => ((c.error = "") # (last.error = ""))

\* C6: whenever reserve admits a negative amount, ledger balance + pending
\* withdrawal + amount >= 0 at that moment.
AdmissionIsSolvent ==
    [][\A t \in Slots :
        (tx[t].pc = "reserve_body" /\ tx'[t].pc = "commit" /\ tx[t].price < 0) =>
            LedgerBalance(tx[t].user_id) + PendingWithdrawal(tx[t].user_id)
                + tx[t].price >= 0]_vars

\* C7: no Commit becomes durable at a clock time later than the expire_at of
\* a reservation it contains.
NoCommitAfterExpiry ==
    [][\A t \in Slots :
        (tx[t].op = "commit" /\ Finishing(t) /\ last'.status = StatusOK) =>
            \A r \in reserve : r.id \in Range(tx[t].ids) => clock <= r.expire_at]_vars

\* C8: for every reservation at most one Commit or Cancel whose set contains
\* it answers ok: it is applied to the ledger at most once, and never once
\* it was cancelled.
AtMostOneTerminal ==
    \A k \in ReserveIDs : terminal[k].commit + terminal[k].cancel <= 1

\* a Commit lost the race for a reservation against a Cancel that answered ok
CommitLostToCancel ==
    /\ last.op = "commit" /\ last.error = ReserveIsAlreadyCommited
    /\ \E k \in Range(last.ids) : terminal[k].cancel = 1 /\ terminal[k].commit = 0

\* C9: the step in which Cancel(ids) answers ok removes exactly the
\* reservations of ids, all of which were there, and leaves the ledger and
\* the users alone; the step in which it answers with a failure changes none
\* of the three.
CancelOnlyDeletes ==
    [][\A t \in Slots :
        (tx[t].op = "cancel" /\ Finishing(t)) =>
            IF last'.status = StatusOK
            THEN LET ids == Range(tx[t].ids)
                     rows == {r \in reserve : r.id \in ids}
                 IN /\ \A k \in ids : \E r \in rows : r.id = k
                    /\ reserve' = reserve \ rows
                    /\ UNCHANGED <<credit, user>>
            ELSE UNCHANGED <<reserve, credit, user>>]_vars

\* a Cancel of two reservations has answered ok
CancelOfTwoSucceeded ==
    /\ last.op = "cancel" /\ last.status = StatusOK
    /\ Cardinality(Range(last.ids)) = 2
    /\ \A k \in Range(last.ids) : ~\E r \in reserve : r.id = k

\* C10: when every negative reservation of the user in the table has expired,
\* reserve decides a negative amount a by the ledger alone: it admits a when
\* ledger balance + a >= 0 and answers CreditInsufficient otherwise.
ExpiredRowsDoNotEncumber ==
    [][\A t \in Slots :
        (/\ tx[t].pc = "reserve_body" /\ tx'[t].pc # "reserve_body"
         /\ last'.status # StatusInternalServerError
         /\ tx[t].price < 0
         /\ \A r \in reserve :
               (r.user_id = tx[t].user_id /\ r.amount < 0) => r.expire_at < clock)
        => IF LedgerBalance(tx[t].user_id) + tx[t].price >= 0
           THEN tx'[t].pc = "commit"
           ELSE last'.status = StatusOK /\ last'.error = CreditIsInsufficient]_vars

\* a negative amount was admitted although an expired negative reservation of
\* the user still is in the table
AdmittedBesideExpiredRow ==
    \E t \in Slots :
        /\ tx[t].op = "reserve" /\ tx[t].pc = "commit" /\ tx[t].price < 0
        /\ \E w \in tx[t].wins :
              /\ \E r \in reserve : r.user_id = w.user_id /\ r.amount < 0
              /\ \A r \in reserve : (r.user_id = w.user_id /\ r.amount < 0)
                                        => r.expire_at < w.created_at

\* C11 as stated: a Commit of a list of which one reservation had been
\* committed before the call and another is live fails with status 400 and
\* "reserve is already commited", and changes neither the reserve table nor
\* the ledger.
CommitOfCommittedSaysCommited ==
    [][\A t \in Slots :
        (/\ tx[t].op = "commit" /\ Finishing(t)
         /\ last'.status # StatusInternalServerError
         /\ tx[t].done # {}
         /\ \E r \in reserve : r.id \in Range(tx[t].ids) /\ r.expire_at >= clock)
        => /\ last'.status = StatusBadRequest
           /\ last'.error = ReserveIsAlreadyCommited
           /\ UNCHANGED <<reserve, credit, user>>]_vars

\* C11 amended: such a Commit fails with status 400 and "reserve is already
\* expired", the answer of its count precheck, and changes neither the
\* reserve table nor the ledger.
CommitOfCommittedSaysExpired ==
    [][\A t \in Slots :
        (/\ tx[t].op = "commit" /\ Finishing(t)
         /\ last'.status # StatusInternalServerError
         /\ tx[t].done # {}
         /\ \E r \in reserve : r.id \in Range(tx[t].ids) /\ r.expire_at >= clock)
        => /\ last'.status = StatusBadRequest
           /\ last'.error = ReserveIsExpires
           /\ UNCHANGED <<reserve, credit, user>>]_vars

\* a Commit of a committed and a live reservation has failed; the live one
\* still is in the table
CommitOfCommittedFailed ==
    /\ last.op = "commit" /\ last.status = StatusBadRequest
    /\ last.done # {}
    /\ \E r \in reserve : r.id \in Range(last.ids) /\ r.expire_at >= clock

\* C12: a Commit whose count precheck runs after the expire_at of a
\* reservation of its list (so every Commit called after it) fails there with
\* status 400 and "reserve is already expired" and changes nothing; a Cancel
\* of a list without repetition that ends while all rows of the list exist,
\* expired or not, answers ok and deletes them.
ExpiredFailsCommitNotCancel ==
    [][\A t \in Slots :
        /\ (/\ tx[t].op = "commit" /\ tx[t].pc = "count" /\ tx'[t] # tx[t]
            /\ last'.status # StatusInternalServerError
            /\ \E r \in reserve : r.id \in Range(tx[t].ids) /\ r.expire_at < clock)
           => /\ Finishing(t)
              /\ last'.status = StatusBadRequest
              /\ last'.error = ReserveIsExpires
              /\ UNCHANGED <<reserve, credit, user>>
        /\ (/\ tx[t].op = "cancel" /\ Finishing(t)
            /\ last'.status # StatusInternalServerError
            /\ Cardinality(Range(tx[t].ids)) = Len(tx[t].ids)
            /\ \A k \in Range(tx[t].ids) : \E r \in reserve : r.id = k)
           => /\ last'.status = StatusOK
              /\ reserve' = {r \in reserve : r.id \notin Range(tx[t].ids)}]_vars

\* a Commit of an expired reservation has failed with "reserve is already
\* expired" while a Cancel of it has deleted the row and is about to commit
ExpiredRefusedAndReaped ==
    /\ last.op = "commit" /\ last.error = ReserveIsExpires
    /\ \E t \in Slots :
          /\ tx[t].op = "cancel" /\ tx[t].pc = "commit"
          /\ \E r \in reserve : /\ r.id \in tx[t].wdel
                                 /\ r.id \in Range(last.ids)
                                 /\ r.expire_at < clock

\* C13: a reserve call with a negative amount that ledger balance + pending
\* withdrawal does not cover is answered with status 200 and "credit is
\* insufficient", hands out no reservation id, inserts no row and leaves the
\* ledger and the users unchanged.
SolvencyFailureIsRefused ==
    [][\A t \in Slots :
        (/\ tx[t].pc = "reserve_body" /\ tx'[t].pc # "reserve_body"
         /\ last'.status # StatusInternalServerError
         /\ tx[t].price < 0
         /\ LedgerBalance(tx[t].user_id) + PendingWithdrawal(tx[t].user_id)
                + tx[t].price < 0)
        => /\ Finishing(t)
           /\ last'.status = StatusOK
           /\ last'.error = CreditIsInsufficient
           /\ last'.rid = 0
           /\ UNCHANGED <<reserve, credit, user, nextRid>>]_vars

\* C14: a check of a price > 0 for an existing user answers ok exactly when
\* user.credit >= price and "credit is insufficient" (status 200) otherwise,
\* whatever reservations the user has, and no step of it changes a table.
CheckComparesCache ==
    [][\A t \in Slots :
        /\ (tx[t].op = "check" /\ Finishing(t)
                /\ last'.status # StatusInternalServerError)
           => /\ last'.status = StatusOK
              /\ IF user[tx[t].user_id].credit >= tx[t].price
                 THEN last'.error = ""
                 ELSE last'.error = CreditIsInsufficient
        /\ ((tx[t].op = "check" \/ tx'[t].op = "check") /\ tx'[t].pc # tx[t].pc)
           => UNCHANGED <<user, credit, reserve, nextRid>>]_vars

\* a check has answered ok although the user's cached credit less its live
\* negative reservations is below the price
CheckOkDespitePending ==
    /\ last.op = "check" /\ last.status = StatusOK /\ last.error = ""
    /\ PendingWithdrawal(last.user_id) < 0
    /\ user[last.user_id].credit + PendingWithdrawal(last.user_id) < last.price

\* C15: a Commit or Cancel transaction that has appended a ledger entry or
\* deleted a reservation row holds the row lock of every user that owns a
\* reservation of its list.
WritesOnlyUnderAllUserLocks ==
    \A t \in Slots :
        (/\ tx[t].op \in {"commit", "cancel"}
         /\ (tx[t].wcredit # <<>> \/ tx[t].wdel # {}))
        => \A i \in DOMAIN tx[t].reserves :
              UserLock(tx[t].reserves[i].user_id) \in tx[t].locks

\* the row locks the next statement of transaction t asks for
Wants(t) ==
    IF tx[t].pc = "update" THEN {UserLock(Head(tx[t].todo).user_id)}
    ELSE IF tx[t].pc \in {"add_credit_body", "check_body", "reserve_body"}
    THEN {UserLock(tx[t].user_id)}
    ELSE IF tx[t].pc = "select" THEN {ReserveLock(k) : k \in Range(tx[t].ids)}
    ELSE {}

\* t waits for a lock that o holds
Blocked(t, o) == t # o /\ \E l \in Wants(t) : l \in tx[o].locks

\* t holds the lock of the lowest user id among the owners of its reservations
LowestUserLocked(t) ==
    tx[t].reserves # <<>> /\
    \E i \in DOMAIN tx[t].reserves :
        /\ \A j \in DOMAIN tx[t].reserves :
              tx[t].reserves[i].user_id <= tx[t].reserves[j].user_id
        /\ UserLock(tx[t].reserves[i].user_id) \in tx[t].locks

\* C16: no state is reachable in which two transactions each wait for a row
\* lock the other holds; stated for the transactions that hold the lock of
\* the lowest user id of their list, the row a LIMIT 1 over the primary key
\* returns first.
NoLockCycle ==
    \A t, o \in Slots :
        (LowestUserLocked(t) /\ LowestUserLocked(o))
            => ~(Blocked(t, o) /\ Blocked(o, t))

\* the error the closure of a handler returns at a statement, by handler
BodyError(op, pc) ==
    IF pc \in {"reserve_body", "check_body"} THEN CreditIsInsufficient
    ELSE IF pc = "count" /\ op = "commit" THEN ReserveIsExpires
    ELSE ReserveIsAlreadyCommited

ReserveRowsWellFormed ==
    [][/\ \A r \in reserve' : /\ r.amount # 0
                               /\ r.is_minus = (r.amount < 0)
                               /\ r.expire_at = r.created_at + Lifetime
       /\ (last'.op = "reserve" /\ last'.price = 0)
             => /\ last'.status = StatusBadRequest
                /\ last'.rid = 0
                /\ UNCHANGED <<reserve, nextRid, tx>>]_vars

\* a reserve request with price 0 has been rejected; the table holds a row of
\* a negative amount
PriceZeroRejected ==
    /\ last.op = "reserve" /\ last.price = 0 /\ last.status = StatusBadRequest
    /\ \E r \in reserve : r.is_minus

\* C19: no step of a reserve request changes the ledger or the cached credit
\* of a user, whether the request is admitted, refused or rejected; a reserve
\* of a positive amount for an existing user passes the closure without a
\* solvency check and, unless a statement fails, is answered ok with the id
\* of its new row.
ReserveLeavesLedgerAlone ==
    [][/\ last'.op = "reserve" => UNCHANGED <<credit, user>>
       /\ \A t \in Slots :
            /\ ((tx[t].op = "reserve" \/ tx'[t].op = "reserve")
                    /\ tx'[t].pc # tx[t].pc)
               => UNCHANGED <<credit, user>>
            /\ (/\ tx[t].pc = "reserve_body" /\ tx'[t].pc # "reserve_body"
                /\ tx[t].price > 0
                /\ last'.status # StatusInternalServerError)
               => tx'[t].pc = "commit" /\ tx'[t].wins # {}
            /\ (/\ tx[t].op = "reserve" /\ Finishing(t)
                /\ tx[t].price > 0
                /\ last'.status # StatusInternalServerError)
               => /\ last'.status = StatusOK /\ last'.error = ""
                  /\ \E r \in reserve' \ reserve :
                        /\ r.id = last'.rid
                        /\ r.user_id = tx[t].user_id
                        /\ r.amount = tx[t].price]_vars

\* a reserve of a positive amount was admitted for a user whose live negative
\* reservations take up the whole balance
PositiveAdmittedOnEmptyBalance ==
    /\ last.op = "reserve" /\ last.price > 0
    /\ last.status = StatusOK /\ last.error = ""
    /\ PendingWithdrawal(last.user_id) < 0
    /\ LedgerBalance(last.user_id) + PendingWithdrawal(last.user_id) <= 0

\* C20: a Commit or Cancel whose list names a reservation more than once ends
\* at its count precheck, Commit with "reserve is already expired" and Cancel
\* with "reserve is already commited", both with status 400 and without a
\* change of a table; no such transaction gets past the precheck.
RepeatedIdFailsAtPrecheck ==
    [][\A t \in Slots :
        /\ (/\ tx[t].pc = "count" /\ tx'[t] # tx[t]
            /\ Len(tx[t].ids) > Cardinality(Range(tx[t].ids))
            /\ last'.status # StatusInternalServerError)
           => /\ Finishing(t)
              /\ last'.status = StatusBadRequest
              /\ last'.error = (IF tx[t].op = "commit" THEN ReserveIsExpires
                                 ELSE ReserveIsAlreadyCommited)
              /\ UNCHANGED <<reserve, credit, user>>
        /\ Len(tx'[t].ids) > Cardinality(Range(tx'[t].ids))
               => tx'[t].pc = "count"]_vars

\* a Commit of [R, R] has failed with "reserve is already expired" although R
\* is in the table and has not expired
CommitOfRepeatedIdFailed ==
    /\ last.op = "commit" /\ last.error = ReserveIsExpires
    /\ Len(last.ids) = 2 /\ last.ids[1] = last.ids[2]
    /\ \E r \in reserve : r.id = last.ids[1] /\ r.expire_at >= clock
====
